---- MODULE Spec2Model ----
(***************************************************************************)
(* Model of the chain-reaction game server of src/main.py: the global      *)
(* stores, the matchmaking stream, private rooms, the game stream and the  *)
(* /move handler with its reaction resolution.  The server runs on one     *)
(* asyncio event loop: a handler runs without interruption up to its next  *)
(* real suspension point (a yield of a streaming generator, asyncio.sleep, *)
(* a wait on an empty queue).  `await q.put(...)` on an unbounded          *)
(* asyncio.Queue never suspends.  Every action below is one such           *)
(* uninterrupted segment.                                                  *)
(***************************************************************************)
EXTENDS Integers, Sequences, FiniteSets, TLC

\* ------------------------------------------------------------------------
\* Program constants
\* ------------------------------------------------------------------------
GridSize == 5
CriticalMass == 4

\* ------------------------------------------------------------------------
\* Bounds of the model
\* ------------------------------------------------------------------------
MaxGames == 2
MaxTokens == 2
MaxMoves == 7
MaxClients == 4
MaxSubs == 1
MaxQueue == 2
MaxDeepMoves == 13
MaxRoomTokens == 3
MaxHubSubs == 3
MaxHubMoves == 2
MaxTokenClients == 3
MaxTokenMoves == 2

\* Coordinates a client sends to /move: an interior cell, its upper
\* neighbour, a corner, and two coordinates outside the grid.
MoveCoords == {<<2, 2>>, <<0, 0>>, <<1, 0>>, <<5, 0>>, <<0, -1>>}

\* The /move requests of one long game on the top row: RED plays the corner,
\* BLUE the three cells to its right.  Each is <<token, <<x, y>>>>.
DeepMoves == {<<1, <<0, 0>>>>, <<2, <<1, 0>>>>, <<2, <<2, 0>>>>, <<2, <<3, 0>>>>}

\* A room code is a sequence of four letters; a letter is a number, 1..26 for
\* the upper-case A..Z and 27..52 for the lower-case a..z.
\* GenCodes: the codes random.choices can draw in the model.
\* JoinCodes: the codes a client sends to /join_room: a registered code as
\* generated, in lower case, in mixed case, and one never generated.
GenCodes == {<<1, 1, 1, 1>>, <<1, 2, 1, 2>>}
JoinCodes == {<<1, 1, 1, 1>>, <<27, 27, 27, 27>>, <<1, 28, 27, 2>>, <<3, 3, 3, 3>>}

VARIABLES
    games,              \* gid -> [grid, current_player]
    subscribers,        \* gid -> sequence of stream queue ids
    waiting_player,     \* 0 (None) or the matchmaking client whose queue waits
    initial_moves_done, \* gid -> [RED |-> BOOLEAN, BLUE |-> BOOLEAN]
    room_codes,         \* code -> gid
    player_tokens,      \* token -> [game_id, role]; token t is the t-th issued
    mm,                 \* matchmaking request -> [pc, q, out]: its generator's position,
                        \* its queue, the messages it has yielded to its client
    streams,            \* game stream -> [gid, pc, q]: its generator's position and its queue
    movers,             \* move id -> [gid, player]: handlers asleep in process_reactions
    nmoves,             \* number of /move requests received
    response            \* the last response of an action endpoint

vars == <<games, subscribers, waiting_player, initial_moves_done, room_codes,
          player_tokens, mm, streams, movers, nmoves, response>>

Roles == {"RED", "BLUE"}

Coords == (0 .. GridSize - 1) \X (0 .. GridSize - 1)

\* A cell {} of the grid: cell.get("owner") is None, cell.get("count", 0) is 0.
EmptyCell == [owner |-> "none", count |-> 0]

OwnedCell(owner, count) == [owner |-> owner, count |-> count]

new_empty_grid == [c \in Coords |-> EmptyCell]

Other(player) == IF player = "RED" THEN "BLUE" ELSE "RED"

\* GameState.dict(): the snapshot that is broadcast.
Snapshot(gid, gs) == [id |-> gid, grid |-> gs[gid].grid,
                      current_player |-> gs[gid].current_player]

\* uuid4 ids: a fresh game id is one no store knows yet.
FreshGid == Cardinality(DOMAIN games) + 1

ensure_games(gid) ==
    IF gid \in DOMAIN games THEN games
    ELSE games @@ (gid :> [grid |-> new_empty_grid, current_player |-> "RED"])

ensure_subscribers(gid) ==
    IF gid \in DOMAIN subscribers THEN subscribers ELSE subscribers @@ (gid :> <<>>)

ensure_initial(gid) ==
    IF gid \in DOMAIN initial_moves_done THEN initial_moves_done
    ELSE initial_moves_done @@ (gid :> [RED |-> FALSE, BLUE |-> FALSE])

get_neighbors(x, y, w, h) ==
    (IF x > 0 THEN <<(<<x - 1, y>>)>> ELSE <<>>) \o
    (IF x < w - 1 THEN <<(<<x + 1, y>>)>> ELSE <<>>) \o
    (IF y > 0 THEN <<(<<x, y - 1>>)>> ELSE <<>>) \o
    (IF y < h - 1 THEN <<(<<x, y + 1>>)>> ELSE <<>>)

\* broadcast putting msg on every queue there is, whatever its session.
broadcast_all(strs, subs, gid, msg) ==
    [s \in DOMAIN strs |-> [strs[s] EXCEPT !.q = Append(@, msg)]]

\* broadcast(gid, msg): msg is put on every queue subscribed to gid.
broadcast(strs, subs, gid, msg) ==
    [s \in DOMAIN strs |->
        IF \E i \in 1 .. Len(subs[gid]) : subs[gid][i] = s
        THEN [strs[s] EXCEPT !.q = Append(@, msg)]
        ELSE strs[s]]

\* ------------------------------------------------------------------------
\* Reaction resolution (process_reactions)
\* ------------------------------------------------------------------------
\* The scan of one pass: every cell with count >= 4, row by row, with the
\* owner it has at the time of the scan.
ScanOrder == [k \in 1 .. GridSize * GridSize |->
                 <<(k - 1) % GridSize, (k - 1) \div GridSize>>]

\* The scan with line 233 testing count > 4.
to_explode_above(grid) ==
    LET hot == SelectSeq(ScanOrder, LAMBDA c : grid[c].count > CriticalMass)
    IN  [i \in 1 .. Len(hot) |-> <<hot[i][1], hot[i][2], grid[hot[i]].owner>>]

to_explode(grid) ==
    LET hot == SelectSeq(ScanOrder, LAMBDA c : grid[c].count >= CriticalMass)
    IN  [i \in 1 .. Len(hot) |-> <<hot[i][1], hot[i][2], grid[hot[i]].owner>>]

RECURSIVE GiveTo(_, _, _)
GiveTo(grid, nbrs, owner) ==
    IF nbrs = <<>> THEN grid
    ELSE GiveTo([grid EXCEPT ![Head(nbrs)] = OwnedCell(owner, @.count + 1)],
                Tail(nbrs), owner)

\* ExplodeCell without line 238: the exploding cell is not cleared.
ExplodeCellKept(grid, e) ==
    GiveTo(grid, get_neighbors(e[1], e[2], GridSize, GridSize), e[3])

ExplodeCell(grid, e) ==
    GiveTo([grid EXCEPT ![<<e[1], e[2]>>] = EmptyCell],
           get_neighbors(e[1], e[2], GridSize, GridSize), e[3])

RECURSIVE ExplodeAll(_, _)
ExplodeAll(grid, list) ==
    IF list = <<>> THEN grid
    ELSE ExplodeAll(ExplodeCell(grid, Head(list)), Tail(list))

\* A wave whose explosions are lost: the grid is left as it was scanned.
WaveLost(grid) == grid

\* One pass of the while loop that found cells to explode.
Wave(grid) == ExplodeAll(grid, to_explode(grid))

\* ------------------------------------------------------------------------
\* Initial state: the module-level stores of src/main.py
\* ------------------------------------------------------------------------
NoResponse == [op |-> "none", status |-> "none", game_id |-> 0, role |-> "none",
               token |-> 0]

Init ==
    /\ games = <<>>
    /\ subscribers = <<>>
    /\ waiting_player = 0
    /\ initial_moves_done = <<>>
    /\ room_codes = <<>>
    /\ player_tokens = <<>>
    /\ mm = <<>>
    /\ streams = <<>>
    /\ movers = <<>>
    /\ nmoves = 0
    /\ response = NoResponse

\* ensure_game_initialized(gid) on the three stores it touches.
ensure_game_initialized(gid) ==
    /\ games' = ensure_games(gid)
    /\ subscribers' = ensure_subscribers(gid)
    /\ initial_moves_done' = ensure_initial(gid)

\* ------------------------------------------------------------------------
\* Matchmaking stream (matchmake_stream.event_generator)
\* ------------------------------------------------------------------------
MatchedMsg(gid, role, token) ==
    [type |-> "matched", game_id |-> gid, role |-> role, token |-> token]

\* game_id of a `waiting` message is the caller's display id, not a game.
WaitingMsg(c) == [type |-> "waiting", game_id |-> 0 - c, role |-> "RED", token |-> 0]

\* Lines 80-97: a waiter is in the slot.  The game and both tokens are
\* created, matched/RED is put on the waiter's queue and matched/BLUE is
\* yielded; the generator is then suspended at the yield of line 97, before
\* line 99.
MatchFound ==
    /\ waiting_player # 0
    /\ Len(mm) < MaxClients
    /\ LET gid == FreshGid
           red_token == Len(player_tokens) + 1
           blue_token == Len(player_tokens) + 2
       IN  /\ ensure_game_initialized(gid)
           /\ player_tokens' = player_tokens \o
                  <<[game_id |-> gid, role |-> "RED"], [game_id |-> gid, role |-> "BLUE"]>>
           /\ mm' = Append(
                  [mm EXCEPT ![waiting_player].q = Append(@, MatchedMsg(gid, "RED", red_token))],
                  [pc |-> "matched_yield", q |-> <<>>,
                   out |-> <<MatchedMsg(gid, "BLUE", blue_token)>>])
    /\ UNCHANGED <<waiting_player, room_codes, streams, movers, nmoves, response>>

\* Lines 100-102: the slot is empty; the caller's queue is stored and
\* `waiting` is yielded.
MatchWait ==
    /\ waiting_player = 0
    /\ Len(mm) < MaxClients
    /\ waiting_player' = Len(mm) + 1
    /\ mm' = Append(mm, [pc |-> "waiting_yield", q |-> <<>>,
                         out |-> <<WaitingMsg(Len(mm) + 1)>>])
    /\ UNCHANGED <<games, subscribers, initial_moves_done, room_codes, player_tokens,
                   streams, movers, nmoves, response>>

\* Line 99 left out: the slot keeps the matched waiter.
SlotAfterMatchKept(slot) == slot

\* Line 99: what the generator does to the slot when it is resumed after
\* the yield of line 97.
SlotAfterMatch(slot) == 0

\* The generator is resumed after its first yield and reaches the loop.
MatchResume(c) ==
    /\ c \in 1 .. Len(mm)
    /\ \/ /\ mm[c].pc = "matched_yield"
          /\ waiting_player' = SlotAfterMatch(waiting_player)
       \/ /\ mm[c].pc = "waiting_yield"
          /\ UNCHANGED waiting_player
    /\ mm' = [mm EXCEPT ![c].pc = "loop"]
    /\ UNCHANGED <<games, subscribers, initial_moves_done, room_codes, player_tokens,
                   streams, movers, nmoves, response>>

\* Lines 108-109: a message of the caller's queue is yielded.
MatchGet(c) ==
    /\ c \in 1 .. Len(mm)
    /\ mm[c].pc = "loop"
    /\ mm[c].q # <<>>
    /\ mm' = [mm EXCEPT ![c].q = Tail(@), ![c].out = Append(@, Head(mm[c].q))]
    /\ UNCHANGED <<games, subscribers, waiting_player, initial_moves_done, room_codes,
                   player_tokens, streams, movers, nmoves, response>>

\* Lines 112-115: the stream ends (the client has gone: the loop breaks, or
\* the generator is closed where it is suspended); the finally block runs.
\* Line 114 without the test of line 113.
SlotAfterCloseAny(slot, c) == 0

SlotAfterClose(slot, c) == IF slot = c THEN 0 ELSE slot

\* A disconnect that also takes the last issued token out of the store.
MatchCloseRevoking(c) ==
    /\ c \in 1 .. Len(mm)
    /\ mm[c].pc \in {"matched_yield", "waiting_yield", "loop"}
    /\ waiting_player' = SlotAfterClose(waiting_player, c)
    /\ mm' = [mm EXCEPT ![c].pc = "done"]
    /\ player_tokens' = SubSeq(player_tokens, 1, Len(player_tokens) - 1)
    /\ UNCHANGED <<games, subscribers, initial_moves_done, room_codes,
                   streams, movers, nmoves, response>>

MatchClose(c) ==
    /\ c \in 1 .. Len(mm)
    /\ mm[c].pc \in {"matched_yield", "waiting_yield", "loop"}
    /\ waiting_player' = SlotAfterClose(waiting_player, c)
    /\ mm' = [mm EXCEPT ![c].pc = "done"]
    /\ UNCHANGED <<games, subscribers, initial_moves_done, room_codes, player_tokens,
                   streams, movers, nmoves, response>>

\* ------------------------------------------------------------------------
\* Private rooms (create_room, join_room)
\* ------------------------------------------------------------------------
UpperLetter(l) == IF l > 26 THEN l - 26 ELSE l

\* Line 137 left out: the code is looked up as it was sent.
UpperAsSent(code) == code

Upper(code) == [i \in 1 .. Len(code) |-> UpperLetter(code[i])]

create_room(code) ==
    /\ FreshGid <= MaxGames
    /\ Len(player_tokens) < MaxTokens
    /\ code \notin DOMAIN room_codes
    /\ LET gid == FreshGid
           red_token == Len(player_tokens) + 1
       IN  /\ ensure_game_initialized(gid)
           /\ room_codes' = room_codes @@ (code :> gid)
           /\ player_tokens' = Append(player_tokens, [game_id |-> gid, role |-> "RED"])
           /\ response' = [op |-> "create_room", status |-> "ok", game_id |-> gid,
                           role |-> "RED", token |-> red_token]
    /\ UNCHANGED <<waiting_player, mm, streams, movers, nmoves>>

join_room(code) ==
    LET ucode == Upper(code)
    IN  \/ /\ ucode \notin DOMAIN room_codes
           /\ response' = [op |-> "join_room", status |-> "404", game_id |-> 0,
                           role |-> "none", token |-> 0]
           /\ UNCHANGED <<games, subscribers, waiting_player, initial_moves_done,
                          room_codes, player_tokens, mm, streams, movers, nmoves>>
        \/ /\ ucode \in DOMAIN room_codes
           /\ LET gid == room_codes[ucode]
                  blue_token == Len(player_tokens) + 1
              IN  /\ ensure_game_initialized(gid)
                  /\ player_tokens' =
                         Append(player_tokens, [game_id |-> gid, role |-> "BLUE"])
                  /\ response' = [op |-> "join_room", status |-> "ok", game_id |-> gid,
                                  role |-> "BLUE", token |-> blue_token]
           /\ UNCHANGED <<waiting_player, room_codes, mm, streams, movers, nmoves>>

\* ------------------------------------------------------------------------
\* Game stream (stream_game)
\* ------------------------------------------------------------------------
\* Lines 152-155: the endpoint registers a new queue; its generator has not
\* run yet.  A client may name any gid: a known one, or one no store knows.
stream_game(gid) ==
    /\ gid \in DOMAIN games \/ (gid = FreshGid /\ gid <= MaxGames)
    /\ games' = ensure_games(gid)
    /\ initial_moves_done' = ensure_initial(gid)
    /\ subscribers' = [ensure_subscribers(gid) EXCEPT ![gid] = Append(@, Len(streams) + 1)]
    /\ streams' = Append(streams, [gid |-> gid, pc |-> "opened", q |-> <<>>])
    /\ UNCHANGED <<waiting_player, room_codes, player_tokens, mm, movers, nmoves,
                   response>>

\* Line 160: the generator starts and yields the session as it is now to
\* its client.
StreamStart(s) ==
    /\ s \in 1 .. Len(streams)
    /\ streams[s].pc = "opened"
    /\ streams' = [streams EXCEPT ![s].pc = "live"]
    /\ UNCHANGED <<games, subscribers, waiting_player, initial_moves_done, room_codes,
                   player_tokens, mm, movers, nmoves, response>>

\* Lines 165-166: q.get() takes the oldest message of the queue and it is
\* yielded to the client.
StreamGet(s) ==
    /\ s \in 1 .. Len(streams)
    /\ streams[s].pc = "live"
    /\ streams[s].q # <<>>
    /\ streams' = [streams EXCEPT ![s].q = Tail(@)]
    /\ UNCHANGED <<games, subscribers, waiting_player, initial_moves_done, room_codes,
                   player_tokens, mm, movers, nmoves, response>>

\* list.remove(q): the first occurrence is removed.
RECURSIVE Remove(_, _)
Remove(list, q) ==
    IF list = <<>> THEN <<>>
    ELSE IF Head(list) = q THEN Tail(list)
    ELSE <<Head(list)>> \o Remove(Tail(list), q)

\* Lines 169-171: the stream ends and the finally block unsubscribes; nothing
\* refers to the queue any more.
StreamClose(s) ==
    /\ s \in 1 .. Len(streams)
    /\ streams[s].pc = "live"
    /\ streams' = [streams EXCEPT ![s].pc = "closed", ![s].q = <<>>]
    /\ subscribers' = [subscribers EXCEPT ![streams[s].gid] = Remove(@, s)]
    /\ UNCHANGED <<games, waiting_player, initial_moves_done, room_codes,
                   player_tokens, mm, movers, nmoves, response>>

\* ------------------------------------------------------------------------
\* Moves (move_endpoint, process_reactions)
\* ------------------------------------------------------------------------
MoveResponse(status, gid, player) ==
    [op |-> "move", status |-> status, game_id |-> gid, role |-> player, token |-> 0]

\* Line 191.
OutOfRange(x, y) == y < 0 \/ y >= GridSize \/ x < 0 \/ x >= GridSize

\* Line 201 placing a cell at critical mass.
PlaceOpeningCritical(grid, player, x, y) ==
    [grid EXCEPT ![<<x, y>>] = OwnedCell(player, CriticalMass)]

\* Line 201.
PlaceOpening(grid, player, x, y) == [grid EXCEPT ![<<x, y>>] = OwnedCell(player, 1)]

\* Line 213.
Increment(grid, player, x, y) ==
    [grid EXCEPT ![<<x, y>>] = OwnedCell(player, grid[<<x, y>>].count + 1)]

\* Lines 206 and 215.
TurnAfter(current, player) == IF player = "RED" THEN "BLUE" ELSE "RED"

\* A handler that checks the turn before it finishes: a move of the role
\* that is not current_player is refused.
FinishOnTurn(gs, subs, gid, player, grid) ==
    IF gs[gid].current_player = player
    THEN /\ games' = [gs EXCEPT ![gid] = [grid |-> grid,
                          current_player |-> TurnAfter(gs[gid].current_player, player)]]
         /\ streams' = broadcast(streams, subs, gid, Snapshot(gid, games'))
         /\ response' = MoveResponse("ok", gid, player)
    ELSE /\ games' = gs
         /\ streams' = streams
         /\ response' = MoveResponse("Not your turn", gid, player)

\* Lines 215-217 (and 206-208): current_player is set and the state is
\* broadcast; the handler returns.
Finish(gs, subs, gid, player, grid) ==
    /\ games' = [gs EXCEPT ![gid] = [grid |-> grid,
                     current_player |-> TurnAfter(gs[gid].current_player, player)]]
    /\ streams' = broadcast(streams, subs, gid, Snapshot(gid, games'))
    /\ response' = MoveResponse("ok", gid, player)

\* An error return placed after the turn switch of line 206.
RejectAfterSwitch(gs, done, status, gid, player) ==
    /\ response' = MoveResponse(status, gid, player)
    /\ games' = [gs EXCEPT ![gid].current_player = Other(player)]
    /\ initial_moves_done' = done
    /\ UNCHANGED <<streams, movers>>

\* Lines 192, 204 and 211: the handler returns an error payload.
Reject(gs, done, status, gid, player) ==
    /\ response' = MoveResponse(status, gid, player)
    /\ games' = gs
    /\ initial_moves_done' = done
    /\ UNCHANGED <<streams, movers>>

\* Line 210 testing only for the opponent's cells.
NotOwnerOpponentOnly(owner, player) == owner = Other(player)

\* Line 210.
NotOwner(owner, player) == owner # player

\* One pass of the loop of process_reactions on `grid`, by handler `id`:
\* either the scan finds nothing and the handler finishes, or the wave runs
\* and the handler sleeps (line 243).
ReactionPass(gs, subs, id, gid, player, grid) ==
    IF to_explode(grid) = <<>>
    THEN /\ Finish(gs, subs, gid, player, grid)
         /\ movers' = [m \in DOMAIN movers \ {id} |-> movers[m]]
    ELSE /\ games' = [gs EXCEPT ![gid].grid = Wave(grid)]
         /\ movers' = [m \in DOMAIN movers \cup {id} |->
                          IF m = id THEN [gid |-> gid, player |-> player]
                          ELSE movers[m]]
         /\ UNCHANGED <<streams, response>>

\* Lines 180-214, up to the first suspension of the handler.
move_endpoint(token, x, y) ==
    /\ \A s \in DOMAIN streams : Len(streams[s].q) < MaxQueue
    /\ nmoves' = nmoves + 1
    /\ UNCHANGED <<waiting_player, room_codes, player_tokens, mm>>
    /\ IF token \notin DOMAIN player_tokens
       THEN /\ response' = MoveResponse("401", 0, "none")
            /\ UNCHANGED <<games, subscribers, initial_moves_done, streams, movers>>
       ELSE LET gid == player_tokens[token].game_id
                player == player_tokens[token].role
                gs == ensure_games(gid)
                subs == ensure_subscribers(gid)
                done == ensure_initial(gid)
                grid == gs[gid].grid
            IN  /\ subscribers' = subs
                /\ IF OutOfRange(x, y)
                   THEN Reject(gs, done, "Invalid coordinates", gid, player)
                   ELSE IF ~done[gid][player]
                   THEN IF grid[<<x, y>>].owner = "none"
                        THEN /\ initial_moves_done' = [done EXCEPT ![gid][player] = TRUE]
                             /\ Finish(gs, subs, gid, player,
                                       PlaceOpening(grid, player, x, y))
                             /\ UNCHANGED movers
                        ELSE Reject(gs, done, "Invalid initial move", gid, player)
                   ELSE IF NotOwner(grid[<<x, y>>].owner, player)
                   THEN Reject(gs, done, "Not your cell", gid, player)
                   ELSE /\ initial_moves_done' = done
                        /\ ReactionPass(gs, subs, nmoves + 1, gid, player,
                                        Increment(grid, player, x, y))

\* Line 243 onwards: the handler wakes from its sleep and runs the next pass
\* on the grid as it is now.
MoveResume(id) ==
    /\ id \in DOMAIN movers
    /\ ReactionPass(games, subscribers, id, movers[id].gid, movers[id].player,
                    games[movers[id].gid].grid)
    /\ UNCHANGED <<subscribers, waiting_player, initial_moves_done, room_codes,
                   player_tokens, mm, nmoves>>

\* ------------------------------------------------------------------------
\* Specifications
\* ------------------------------------------------------------------------
\* The server accepts requests without limit.  Each specification explores
\* it up to bounds of its own, stated where its next-state relation draws
\* the requests.
\* The matchmaking stream's steps.
NextMatch ==
    \/ MatchFound
    \/ MatchWait
    \/ \E c \in 1 .. MaxClients : MatchResume(c)
    \/ \E c \in 1 .. MaxClients : MatchGet(c)
    \/ \E c \in 1 .. MaxClients : MatchClose(c)

\* The steps of private rooms, game streams and moves.
NextGame ==
    \/ \E code \in GenCodes : create_room(code)
    \/ \E code \in JoinCodes : Len(player_tokens) < MaxTokens /\ join_room(code)
    \/ \E gid \in 1 .. MaxGames : Len(streams) < MaxSubs /\ stream_game(gid)
    \/ \E s \in 1 .. MaxSubs : StreamStart(s)
    \/ \E s \in 1 .. MaxSubs : StreamGet(s)
    \/ \E s \in 1 .. MaxSubs : StreamClose(s)
    \/ \E token \in 0 .. MaxTokens, c \in MoveCoords :
          nmoves < MaxMoves /\ move_endpoint(token, c[1], c[2])
    \/ \E id \in 1 .. MaxMoves : MoveResume(id)

Next == NextMatch \/ NextGame

\* The whole server.
Spec == Init /\ [][Next]_vars

\* The server when clients use only the matchmaking stream.
SpecMatch == Init /\ [][NextMatch]_vars

\* The server when clients use private rooms, game streams and moves.
SpecGame == Init /\ [][NextGame]_vars

\* Rooms and moves alone: no client subscribes to a game stream.
NextMoves ==
    \/ \E code \in GenCodes : create_room(code)
    \/ \E code \in JoinCodes : Len(player_tokens) < MaxTokens /\ join_room(code)
    \/ \E token \in 0 .. MaxTokens, c \in MoveCoords :
          nmoves < MaxMoves /\ move_endpoint(token, c[1], c[2])
    \/ \E id \in 1 .. MaxMoves : MoveResume(id)

\* asyncio resumes a handler whose sleep has ended.
Resumed == \A id \in 1 .. MaxMoves : WF_vars(MoveResume(id))

SpecMovesFair == Init /\ [][NextMoves]_vars /\ Resumed

\* One private room and one long game in it: few different requests, many of
\* them.
NextDeep ==
    \/ \E code \in GenCodes : games = <<>> /\ create_room(code)
    \/ \E code \in JoinCodes : Len(player_tokens) < MaxTokens /\ join_room(code)
    \/ \E m \in DeepMoves :
          nmoves < MaxDeepMoves /\ move_endpoint(m[1], m[2][1], m[2][2])
    \/ \E id \in 1 .. MaxDeepMoves : MoveResume(id)

SpecDeep == Init /\ [][NextDeep]_vars

\* Private rooms with several joiners, and the game streams of their
\* sessions; no move is made.
NextRooms ==
    \/ \E code \in GenCodes : create_room(code)
    \/ \E code \in JoinCodes : Len(player_tokens) < MaxRoomTokens /\ join_room(code)
    \/ \E gid \in 1 .. MaxGames : Len(streams) < MaxSubs /\ stream_game(gid)
    \/ \E s \in 1 .. MaxSubs : StreamStart(s)
    \/ \E s \in 1 .. MaxSubs : StreamClose(s)

SpecRooms == Init /\ [][NextRooms]_vars

\* Several game streams, on one session or on two, and the first moves of
\* their games: too few moves for a cell to explode.
NextHub ==
    \/ \E code \in GenCodes : create_room(code)
    \/ \E code \in JoinCodes : Len(player_tokens) < MaxTokens /\ join_room(code)
    \/ \E gid \in 1 .. MaxGames : Len(streams) < MaxHubSubs /\ stream_game(gid)
    \/ \E s \in 1 .. MaxHubSubs : StreamStart(s)
    \/ \E s \in 1 .. MaxHubSubs : StreamGet(s)
    \/ \E s \in 1 .. MaxHubSubs : StreamClose(s)
    \/ \E token \in 0 .. MaxTokens, c \in MoveCoords :
          nmoves < MaxHubMoves /\ move_endpoint(token, c[1], c[2])

SpecHub == Init /\ [][NextHub]_vars

\* Every endpoint that issues or reads a token: a few matchmaking requests,
\* private rooms and the first moves.
NextTokens ==
    \/ Len(mm) < MaxTokenClients /\ MatchFound
    \/ Len(mm) < MaxTokenClients /\ MatchWait
    \/ \E c \in 1 .. MaxTokenClients : MatchResume(c)
    \/ \E c \in 1 .. MaxTokenClients : MatchGet(c)
    \/ \E c \in 1 .. MaxTokenClients : MatchClose(c)
    \/ \E code \in GenCodes : create_room(code)
    \/ \E code \in JoinCodes : Len(player_tokens) < MaxRoomTokens /\ join_room(code)
    \/ \E token \in 0 .. MaxRoomTokens, c \in MoveCoords :
          nmoves < MaxTokenMoves /\ move_endpoint(token, c[1], c[2])

SpecTokens == Init /\ [][NextTokens]_vars

\* ------------------------------------------------------------------------
\* Definitions used by the properties
\* ------------------------------------------------------------------------
InRange == {c \in MoveCoords : ~OutOfRange(c[1], c[2])}

RECURSIVE SumCounts(_, _)
SumCounts(grid, cells) ==
    IF cells = <<>> THEN 0 ELSE grid[Head(cells)].count + SumCounts(grid, Tail(cells))

\* Ownership mass: the sum of count over the cells of the board.
Mass(grid) == SumCounts(grid, ScanOrder)

HotCells(grid) == {c \in Coords : grid[c].count >= CriticalMass}

Adjacent(a, b) ==
    \/ a[1] = b[1] /\ (a[2] - b[2] = 1 \/ b[2] - a[2] = 1)
    \/ a[2] = b[2] /\ (a[1] - b[1] = 1 \/ b[1] - a[1] = 1)

Nbrs(c) == {d \in Coords : Adjacent(c, d)}

\* Edges from the exploding cells of `grid` to their in-bounds neighbours.
Edges(grid) == Cardinality({p \in HotCells(grid) \X Coords : Adjacent(p[1], p[2])})

HotSum(grid) == SumCounts(grid, SelectSeq(ScanOrder, LAMBDA c : c \in HotCells(grid)))

\* Exploding cells that are neighbours of each other, as unordered pairs.
HotPairs(grid) ==
    Cardinality({p \in HotCells(grid) \X HotCells(grid) : Adjacent(p[1], p[2])}) \div 2

\* This step is the /move request (token, c) and runs a wave: its handler
\* goes to sleep in process_reactions.
StartsWave(token, c) ==
    /\ token \in DOMAIN player_tokens
    /\ nmoves' = nmoves + 1
    /\ (nmoves + 1) \in DOMAIN movers'
    /\ move_endpoint(token, c[1], c[2])

\* This step resumes handler id and its scan finds cells to explode.
ResumesWave(id) ==
    /\ id \in DOMAIN movers
    /\ nmoves' = nmoves
    /\ games' # games
    /\ to_explode(games[movers[id].gid].grid) # <<>>
    /\ MoveResume(id)

\* P(gid, pre, post) for the wave this step runs, if it runs one: pre is the
\* board the wave scans, post the board it leaves.
EveryWave(P(_, _, _)) ==
    /\ \A token \in DOMAIN player_tokens, c \in Coords :
          StartsWave(token, c) =>
              LET gid == player_tokens[token].game_id
              IN  P(gid, Increment(games[gid].grid, player_tokens[token].role, c[1], c[2]),
                    games'[gid].grid)
    /\ \A id \in DOMAIN movers :
          ResumesWave(id) =>
              P(movers[id].gid, games[movers[id].gid].grid, games'[movers[id].gid].grid)

\* This step is the /move request (token, c) with a token that was issued.
Moves(token, c) ==
    /\ token \in DOMAIN player_tokens
    /\ nmoves' = nmoves + 1
    /\ move_endpoint(token, c[1], c[2])

\* The queues subscribed to gid.
SubscribersOf(subs, gid) == {subs[gid][i] : i \in 1 .. Len(subs[gid])}

\* ------------------------------------------------------------------------
\* C1
\* ------------------------------------------------------------------------
\* C1: at most one move is in flight per session: no /move request reads or
\* changes a session's board while the reaction resolution of an earlier move
\* on that session has not finished (it sleeps between two waves).
C1_OneMoveInFlight ==
    [][\A token \in DOMAIN player_tokens, c \in InRange :
          Moves(token, c) =>
              \A id \in DOMAIN movers : movers[id].gid # player_tokens[token].game_id]_vars

\* ------------------------------------------------------------------------
\* C3
\* ------------------------------------------------------------------------
\* C3: a session starts with current_player RED, and every accepted move
\* changes current_player to the role other than the one it held before it.
C3_StrictAlternation ==
    [][/\ \A gid \in DOMAIN games' \ DOMAIN games : games'[gid].current_player = "RED"
       /\ \A token \in DOMAIN player_tokens, c \in InRange :
             (Moves(token, c) /\ response'.status = "ok") =>
                 LET gid == player_tokens[token].game_id
                 IN  games'[gid].current_player = Other(games[gid].current_player)]_vars

\* ------------------------------------------------------------------------
\* C4
\* ------------------------------------------------------------------------
\* C4: every wave's post-wave board is sent to every subscriber of the
\* session, in the order the waves run, before the final state of the move.
WaveIsPublished(gid, pre, post) ==
    \A s \in SubscribersOf(subscribers, gid) :
        streams'[s].q = Append(streams[s].q, Snapshot(gid, games'))

C4_WavesPublished == [][EveryWave(WaveIsPublished)]_vars

\* ------------------------------------------------------------------------
\* C7
\* ------------------------------------------------------------------------
\* C7 as claimed: across a wave the mass never decreases and it grows by
\* exactly the number of edges from the exploding cells to their in-bounds
\* neighbours.
MassGrowsByEdges(gid, pre, post) ==
    /\ Mass(post) >= Mass(pre)
    /\ Mass(post) - Mass(pre) = Edges(pre)

C7_MassGrowsByEdges == [][EveryWave(MassGrowsByEdges)]_vars

\* C7 as amended: across a wave the mass never increases; it changes by the
\* number of edges from the exploding cells to their in-bounds neighbours,
\* less the counts the exploding cells held when scanned, less one for each
\* pair of exploding cells that are neighbours.
MassBalance(gid, pre, post) ==
    /\ Mass(post) <= Mass(pre)
    /\ Mass(post) - Mass(pre) = Edges(pre) - HotSum(pre) - HotPairs(pre)

C7_MassBalance == [][EveryWave(MassBalance)]_vars

\* A wave has run from a corner, where the mass drops.
C7_Witness ==
    \E id \in DOMAIN movers :
        /\ games[movers[id].gid].grid[<<0, 0>>] = EmptyCell
        /\ games[movers[id].gid].grid[<<1, 0>>].count >= 1

\* ------------------------------------------------------------------------
\* C2, C5
\* ------------------------------------------------------------------------
\* The messages ever put on the queue of matchmaking request c: those it has
\* yielded after its first message, then those still queued.
PutOn(c) == SubSeq(mm[c].out, 2, Len(mm[c].out)) \o mm[c].q

MatchedRed(c) == SelectSeq(PutOn(c), LAMBDA m : m.type = "matched" /\ m.role = "RED")

\* C2: no two callers are matched against the same waiting channel: a
\* waiting channel is sent at most one matched/RED notification.
C2_MatchedAtMostOnce == \A c \in 1 .. Len(mm) : Len(MatchedRed(c)) <= 1

\* Two requests have arrived, with no waiter before them; neither stream has
\* ended, and the second has been resumed after its first message.
TwoRequests ==
    /\ Len(mm) = 2
    /\ mm[1].pc \in {"waiting_yield", "loop"}
    /\ mm[2].pc = "loop"

C8_Terminates ==
    \A id \in 1 .. MaxMoves : (id \in DOMAIN movers) ~> (id \notin DOMAIN movers)

\* A handler sleeps between two waves: its next scan will find a cell.
C8_Witness ==
    \E id \in DOMAIN movers : to_explode(games[movers[id].gid].grid) # <<>>

\* ------------------------------------------------------------------------
\* C6
\* ------------------------------------------------------------------------
Opened(gid, role) == gid \in DOMAIN initial_moves_done /\ initial_moves_done[gid][role]

\* C6: a role's opening flag is set by one accepted move, which places
\* {owner: role, count: 1} on an empty in-bounds cell, and is never reset; once
\* it is set, every move of that role on a cell the role does not own (empty
\* or the opponent's) is rejected and places nothing.
C6_OpeningOnce ==
    [][/\ \A gid \in DOMAIN initial_moves_done, role \in Roles :
             initial_moves_done[gid][role] => initial_moves_done'[gid][role]
       /\ \A token \in DOMAIN player_tokens, c \in InRange :
             Moves(token, c) =>
                 LET gid == player_tokens[token].game_id
                     role == player_tokens[token].role
                     grid == games[gid].grid
                 IN  /\ (~Opened(gid, role) /\ response'.status = "ok") =>
                            /\ initial_moves_done'[gid][role]
                            /\ grid[c].owner = "none"
                            /\ games'[gid].grid = [grid EXCEPT ![c] = OwnedCell(role, 1)]
                     /\ (~Opened(gid, role) /\ initial_moves_done'[gid][role]) =>
                            response'.status = "ok"
                     /\ (Opened(gid, role) /\ grid[c].owner # role) =>
                            /\ response' = MoveResponse("Not your cell", gid, role)
                            /\ games' = games]_vars

\* A role that has opened has been refused an empty cell.
C6_Witness ==
    /\ response.status = "Not your cell"
    /\ Opened(response.game_id, response.role)
    /\ \E c \in InRange : games[response.game_id].grid[c].owner = "none"
    /\ \E c \in InRange : games[response.game_id].grid[c].owner = Other(response.role)

\* ------------------------------------------------------------------------
\* C9
\* ------------------------------------------------------------------------
\* Why the /move request (token, c) is rejected in the current state, or "none".
RejectReason(token, c) ==
    IF token \notin DOMAIN player_tokens THEN "401"
    ELSE IF c \notin Coords THEN "Invalid coordinates"
    ELSE LET gid == player_tokens[token].game_id
             role == player_tokens[token].role
             owner == games[gid].grid[c].owner
         IN  IF ~Opened(gid, role)
             THEN IF owner # "none" THEN "Invalid initial move" ELSE "none"
             ELSE IF owner # role THEN "Not your cell" ELSE "none"

\* C9: a rejected move (unknown token, coordinate outside the grid, occupied
\* cell on an opening move, cell of another owner afterwards) is answered
\* with its error and changes no board, current_player or opening flag of any
\* session, creates no session and puts nothing on any queue.
C9_RejectedChangesNothing ==
    [][\A token \in 0 .. MaxTokens, c \in MoveCoords :
          (/\ nmoves' = nmoves + 1
           /\ RejectReason(token, c) # "none"
           /\ move_endpoint(token, c[1], c[2])) =>
              /\ response'.status = RejectReason(token, c)
              /\ UNCHANGED <<games, initial_moves_done, subscribers, streams, movers,
                             player_tokens, room_codes>>]_vars

\* A move on a cell the role does not own has been rejected in a session
\* whose subscriber has a message waiting, while a second session exists.
C9_Witness ==
    /\ response.status = "Not your cell"
    /\ \E s \in SubscribersOf(subscribers, response.game_id) : streams[s].q # <<>>
    /\ Cardinality(DOMAIN games) = 2

\* ------------------------------------------------------------------------
\* C10
\* ------------------------------------------------------------------------
\* The board after the cell c of role has exploded alone.
AfterSingleExplosion(grid, c, role) ==
    [d \in Coords |->
        IF d = c THEN EmptyCell
        ELSE IF d \in Nbrs(c) THEN OwnedCell(role, grid[d].count + 1)
        ELSE grid[d]]

\* C10: when a role that has opened raises a cell it owns from 3 to 4 and no
\* cell has count >= 4 after the wave, the wave leaves that cell empty, each
\* in-bounds orthogonal neighbour owned by the role with one more than before
\* and every other cell as it was; the next scan finds nothing, runs no
\* further wave and the handler returns.
C10_SingleWave ==
    [][/\ \A token \in DOMAIN player_tokens, c \in Coords :
             LET gid == player_tokens[token].game_id
                 role == player_tokens[token].role
                 grid == games[gid].grid
             IN  (/\ Opened(gid, role)
                  /\ grid[c] = OwnedCell(role, 3)
                  /\ Moves(token, c)
                  /\ HotCells(games'[gid].grid) = {}) =>
                     /\ games'[gid].grid = AfterSingleExplosion(grid, c, role)
                     /\ (nmoves + 1) \in DOMAIN movers'
       /\ \A id \in DOMAIN movers :
             LET gid == movers[id].gid
             IN  (/\ nmoves' = nmoves
                  /\ HotCells(games[gid].grid) = {}
                  /\ MoveResume(id)) =>
                     /\ games'[gid].grid = games[gid].grid
                     /\ id \notin DOMAIN movers'
                     /\ response' = MoveResponse("ok", gid, movers[id].player)]_vars

\* ------------------------------------------------------------------------
\* C11
\* ------------------------------------------------------------------------
\* P(gid) for the handler that returns from process_reactions in this step,
\* if one does: a handler that wakes and finds nothing to explode, or an
\* accepted move after the opening whose first scan finds nothing.
EveryReturn(P(_)) ==
    /\ \A id \in DOMAIN movers :
          (nmoves' = nmoves /\ id \notin DOMAIN movers') => P(movers[id].gid)
    /\ (/\ nmoves' = nmoves + 1
        /\ movers' = movers
        /\ response'.status = "ok"
        /\ Opened(response'.game_id, response'.role)) =>
           P(response'.game_id)

\* The board is stable and a further resolution on it does nothing: its
\* scan collects no cell, so it runs no wave and leaves every cell as it is.
StableAfter(gid) ==
    LET post == games'[gid].grid
    IN  /\ \A c \in Coords : post[c].count < CriticalMass
        /\ to_explode(post) = <<>>
        /\ Wave(post) = post

\* C11: whenever reaction resolution returns, no cell of the board has
\* count >= 4, and resolving again on that board runs no wave and changes no
\* cell.
C11_StableOnReturn == [][EveryReturn(StableAfter)]_vars

\* A move has been answered after its cascade: the corner that exploded is
\* empty, its neighbour holds what it was given, and no handler is left.
C11_Witness ==
    /\ response.op = "move"
    /\ response.status = "ok"
    /\ movers = <<>>
    /\ LET grid == games[response.game_id].grid
       IN  /\ grid[<<0, 0>>] = EmptyCell
           /\ grid[<<1, 0>>].count >= 1
           /\ HotCells(grid) = {}

\* ------------------------------------------------------------------------
\* C12
\* ------------------------------------------------------------------------
\* Two codes are the same but for the case of their letters.
SameLetters(a, b) ==
    /\ Len(a) = Len(b)
    /\ \A i \in 1 .. Len(a) : a[i] = b[i] \/ a[i] = b[i] + 26 \/ a[i] + 26 = b[i]

\* The registered code that `code` names, if there is one.
Registered(code) == {r \in DOMAIN room_codes : SameLetters(code, r)}

\* C12: join_room succeeds exactly when the code, in any letter case, is
\* registered.  With an unregistered code it answers 404, issues no token and
\* creates or changes no session; with a registered one it issues a token no
\* one holds yet, bound to BLUE and to the session the code was created for,
\* whatever joiners came before, and changes no session.  A registered code
\* keeps its session.
C12_JoinRoom ==
    [][/\ \A r \in DOMAIN room_codes :
             r \in DOMAIN room_codes' /\ room_codes'[r] = room_codes[r]
       /\ \A code \in JoinCodes :
             join_room(code) =>
                 /\ UNCHANGED <<games, initial_moves_done, subscribers, streams, room_codes>>
                 /\ IF Registered(code) = {}
                    THEN /\ response'.status = "404"
                         /\ response'.token = 0
                         /\ player_tokens' = player_tokens
                    ELSE \E r \in Registered(code) :
                            /\ response'.status = "ok"
                            /\ response'.role = "BLUE"
                            /\ response'.game_id = room_codes[r]
                            /\ response'.token \notin DOMAIN player_tokens
                            /\ DOMAIN player_tokens' = DOMAIN player_tokens \cup {response'.token}
                            /\ player_tokens'[response'.token] =
                                   [game_id |-> room_codes[r], role |-> "BLUE"]
                            /\ \A t \in DOMAIN player_tokens :
                                   player_tokens'[t] = player_tokens[t]]_vars

\* A second joiner has been given a token of its own for the room that its
\* creator and another joiner hold tokens of.
C12_Witness ==
    /\ response.op = "join_room"
    /\ response.status = "ok"
    /\ response.token = Len(player_tokens)
    /\ \E t \in DOMAIN player_tokens :
          /\ t # response.token
          /\ player_tokens[t] = [game_id |-> response.game_id, role |-> "BLUE"]
    /\ \E t \in DOMAIN player_tokens :
          player_tokens[t] = [game_id |-> response.game_id, role |-> "RED"]

\* ------------------------------------------------------------------------
\* C13
\* ------------------------------------------------------------------------
\* C13: when the stream of matchmaking consumer c ends, the slot is reset to
\* Empty if it holds c's own channel and is left as it is if it is Empty or
\* holds another consumer's channel; no session, token or board changes.
C13_DisconnectCleanup ==
    [][\A c \in DOMAIN mm :
          (mm[c].pc # "done" /\ mm'[c].pc = "done") =>
              /\ waiting_player = c => waiting_player' = 0
              /\ waiting_player # c => waiting_player' = waiting_player
              /\ UNCHANGED <<games, initial_moves_done, subscribers, player_tokens,
                             room_codes>>]_vars

\* The first consumer waited and left unmatched, which emptied the slot; the
\* second waits in the slot; the third was matched with it and left, and
\* the slot still holds the second.
C13_Witness ==
    /\ Len(mm) >= 3
    /\ mm[1].pc = "done"
    /\ mm[1].out[1].type = "waiting"
    /\ PutOn(1) = <<>>
    /\ mm[3].pc = "done"
    /\ mm[3].out[1].type = "matched"
    /\ waiting_player = 2

\* ------------------------------------------------------------------------
\* C14
\* ------------------------------------------------------------------------
\* This step publishes: a handler of /move reaches line 207 or line 216, on
\* arrival or when it wakes and finds nothing left to explode.  The session
\* it publishes for is response'.game_id.
Publishes ==
    \/ nmoves' = nmoves + 1 /\ movers' = movers /\ response'.status = "ok"
    \/ nmoves' = nmoves /\ \E id \in DOMAIN movers : id \notin DOMAIN movers'

\* The streams whose channel is registered for gid: opened for it and not
\* ended.
RegisteredFor(gid) ==
    {s \in DOMAIN streams : streams[s].gid = gid /\ streams[s].pc # "closed"}

\* C14: a publish for a session puts the message once, at the tail, on
\* every channel registered for the session at that time, consuming or not,
\* and leaves every other channel as it is, and the handler returns in the
\* same step; a channel only ever holds messages of its own session; a
\* subscriber takes the oldest message of its channel and leaves the others
\* in their order.
C14_Publish ==
    [][/\ Publishes =>
             LET gid == response'.game_id
                 msg == Snapshot(gid, games')
             IN  /\ SubscribersOf(subscribers, gid) = RegisteredFor(gid)
                 /\ \A s \in RegisteredFor(gid) :
                        streams'[s] = [streams[s] EXCEPT !.q = Append(@, msg)]
                 /\ \A s \in DOMAIN streams \ RegisteredFor(gid) :
                        streams'[s] = streams[s]
                 /\ response' = MoveResponse("ok", gid, response'.role)
       /\ \A s \in DOMAIN streams' :
             \A i \in 1 .. Len(streams'[s].q) : streams'[s].q[i].id = streams'[s].gid
       /\ \A s \in DOMAIN streams :
             (streams'[s].pc = "live" /\ Len(streams'[s].q) < Len(streams[s].q)) =>
                 streams'[s].q = Tail(streams[s].q)]_vars

\* Two messages were published for a session with two subscribers: the one
\* that is not consuming holds both, the one that consumes holds the later
\* one, and a subscriber of another session holds none.
C14_Witness ==
    \E s1, s2, s3 \in DOMAIN streams :
        /\ streams[s1].gid = streams[s2].gid
        /\ streams[s3].gid # streams[s1].gid
        /\ streams[s1].pc = "opened"
        /\ Len(streams[s1].q) = 2
        /\ streams[s1].q[1] # streams[s1].q[2]
        /\ streams[s2].pc = "live"
        /\ streams[s2].q = Tail(streams[s1].q)
        /\ streams[s3].pc # "closed"
        /\ streams[s3].q = <<>>

\* ------------------------------------------------------------------------
\* C15
\* ------------------------------------------------------------------------
\* The `matched` messages sent so far, yielded or still queued.
MatchedMessages ==
    UNION {{m \in {mm[c].out[i] : i \in 1 .. Len(mm[c].out)}
                  \cup {mm[c].q[i] : i \in 1 .. Len(mm[c].q)} : m.type = "matched"} :
           c \in DOMAIN mm}

\* What clients have been handed with a token: the token and the session and
\* role it was issued for, in the last response of create_room or join_room
\* and in the `matched` messages.
HandedOut ==
    (IF response.token # 0
     THEN {[token |-> response.token, game_id |-> response.game_id, role |-> response.role]}
     ELSE {})
    \cup {[token |-> m.token, game_id |-> m.game_id, role |-> m.role] : m \in MatchedMessages}

Resolves(h) ==
    /\ h.token \in DOMAIN player_tokens
    /\ player_tokens[h.token] = [game_id |-> h.game_id, role |-> h.role]

\* C15: no step removes or rebinds a token; every token a client was handed
\* resolves, in every later state, to the session and role it was issued
\* for; and /move answers 401 only to a token that was never issued.
C15_TokensKept ==
    [][/\ \A t \in DOMAIN player_tokens :
             t \in DOMAIN player_tokens' /\ player_tokens'[t] = player_tokens[t]
       /\ \A h \in HandedOut \cup HandedOut' : Resolves(h)'
       /\ (nmoves' = nmoves + 1 /\ movers' = movers /\ response'.status = "401") =>
             \A token \in DOMAIN player_tokens, c \in MoveCoords :
                 ~move_endpoint(token, c[1], c[2])]_vars

\* The creator of a room holds the first token; a matched pair was issued
\* two more after it and one of the pair has disconnected; the first token
\* has since made an accepted move.
C15_Witness ==
    /\ Len(player_tokens) = 3
    /\ room_codes # <<>>
    /\ player_tokens[1].role = "RED"
    /\ player_tokens[2].game_id # player_tokens[1].game_id
    /\ \E c \in DOMAIN mm : mm[c].pc = "done" /\ mm[c].out[1].type = "matched"
    /\ response = MoveResponse("ok", player_tokens[1].game_id, "RED")
    /\ games[player_tokens[1].game_id].grid[<<2, 2>>].count = 2

\* ------------------------------------------------------------------------
\* C16
\* ------------------------------------------------------------------------
\* The orders in which the cells of a list can be processed.
Perms(list) ==
    LET n == Len(list)
        Orders == {f \in [1 .. n -> 1 .. n] : \A i, j \in 1 .. n : f[i] = f[j] => i = j}
    IN  {[i \in 1 .. n |-> list[f[i]]] : f \in Orders}

OrderIrrelevant(gid, pre, post) ==
    \A list \in Perms(to_explode(pre)) : ExplodeAll(pre, list) = post

\* C16: whatever the order in which a wave processes the cells its scan
\* collected, the board after the wave is the same, owners and counts.
C16_OrderIrrelevant == [][EveryWave(OrderIrrelevant)]_vars

\* ------------------------------------------------------------------------
\* C17
\* ------------------------------------------------------------------------
\* C17: a move of a role that satisfies the cell rule (an empty cell for the
\* role's opening move, a cell the role owns afterwards) is accepted also
\* when current_player is the other role: its handler answers ok, or is
\* resolving the reactions of the move.
C17_TurnNotEnforced ==
    [][\A token \in DOMAIN player_tokens, c \in InRange :
          LET gid == player_tokens[token].game_id
              role == player_tokens[token].role
          IN  (/\ nmoves' = nmoves + 1
               /\ games[gid].current_player # role
               /\ RejectReason(token, c) = "none"
               /\ Moves(token, c)) =>
                  \/ (nmoves + 1) \in DOMAIN movers'
                  \/ /\ response' = MoveResponse("ok", gid, role)
                     /\ games'[gid].grid[c] = OwnedCell(role, games[gid].grid[c].count + 1)]_vars

\* RED has had two accepted moves in a row: BLUE has not opened, so has had
\* no accepted move, RED's cell holds 2, and current_player was BLUE when
\* RED made the move just answered.
C17_Witness ==
    /\ response.op = "move"
    /\ response.status = "ok"
    /\ response.role = "RED"
    /\ ~Opened(response.game_id, "BLUE")
    /\ games[response.game_id].current_player = "BLUE"
    /\ \E c \in InRange : games[response.game_id].grid[c] = OwnedCell("RED", 2)

\* ------------------------------------------------------------------------
\* C18
\* ------------------------------------------------------------------------
\* C18: an accepted opening move runs no reaction resolution.  It makes the
\* target cell {owner: role, count: 1}, sets the role's opening flag and
\* current_player, puts one snapshot on each channel subscribed to the
\* session and answers ok; every other cell, every other session, every other
\* channel, and the handlers asleep in a resolution are left as they are.
C18_OpeningFrame ==
    [][\A token \in DOMAIN player_tokens, c \in InRange :
          LET gid == player_tokens[token].game_id
              role == player_tokens[token].role
          IN  (/\ nmoves' = nmoves + 1
               /\ ~Opened(gid, role)
               /\ games[gid].grid[c].owner = "none"
               /\ Moves(token, c)) =>
                  /\ games' = [games EXCEPT ![gid] =
                         [grid |-> [games[gid].grid EXCEPT ![c] = OwnedCell(role, 1)],
                          current_player |-> Other(role)]]
                  /\ initial_moves_done' = [initial_moves_done EXCEPT ![gid][role] = TRUE]
                  /\ movers' = movers
                  /\ response' = MoveResponse("ok", gid, role)
                  /\ \A s \in DOMAIN streams :
                         streams'[s] =
                             IF s \in SubscribersOf(subscribers, gid)
                             THEN [streams[s] EXCEPT !.q = Append(@, Snapshot(gid, games'))]
                             ELSE streams[s]
                  /\ UNCHANGED <<subscribers, player_tokens, room_codes>>]_vars

\* BLUE's opening move has been accepted while a handler of RED sleeps in
\* its resolution: BLUE holds one cell with count 1, and the subscriber's
\* newest message is the session as it is now.
C18_Witness ==
    /\ response.op = "move"
    /\ response.status = "ok"
    /\ response.role = "BLUE"
    /\ Opened(response.game_id, "BLUE")
    /\ \E id \in DOMAIN movers :
          movers[id].gid = response.game_id /\ movers[id].player = "RED"
    /\ Cardinality({c \in Coords :
                        games[response.game_id].grid[c] = OwnedCell("BLUE", 1)}) = 1
    /\ \E s \in SubscribersOf(subscribers, response.game_id) :
          /\ streams[s].q # <<>>
          /\ streams[s].q[Len(streams[s].q)] = Snapshot(response.game_id, games)

\* ------------------------------------------------------------------------
\* C19
\* ------------------------------------------------------------------------
\* C19: every caller that was sent `waiting` and has not disconnected is
\* still the channel held in the slot, or a matched notification has been
\* put on its channel.
C19_NoWaiterLost ==
    \A c \in DOMAIN mm :
        (mm[c].out[1].type = "waiting" /\ mm[c].pc # "done") =>
            waiting_player = c \/ Len(MatchedRed(c)) >= 1

\* ------------------------------------------------------------------------
\* C20
\* ------------------------------------------------------------------------
\* Every cell the scan of `grid` collects is owned by role.
AllOwnedBy(grid, role) ==
    \A i \in 1 .. Len(to_explode(grid)) : to_explode(grid)[i][3] = role

\* C20: in the reaction resolution of a move of role r every cell that
\* explodes is owned by r, in the wave the move starts on arrival and in each
\* wave its handler runs when it wakes: the cascade gives cells to r only.
C20_CascadeOwner ==
    [][/\ \A token \in DOMAIN player_tokens, c \in Coords :
             StartsWave(token, c) =>
                 LET gid == player_tokens[token].game_id
                     role == player_tokens[token].role
                 IN  AllOwnedBy(Increment(games[gid].grid, role, c[1], c[2]), role)
       /\ \A id \in DOMAIN movers :
             ResumesWave(id) =>
                 AllOwnedBy(games[movers[id].gid].grid, movers[id].player)]_vars

====
